---- MODULE Spec2Model ----
(***************************************************************************)
(* A model of the classification engine (cfpb_articles.py: FRAUD_PATTERNS, *)
(* FRAUD_REGEX, classify_violation, tag_fraud) and of the query embedding  *)
(* cache (semantic_search.py: _normalize, _qhash,                          *)
(* get_or_create_query_embedding, search), of the article table            *)
(* (articles_supabase.py, llm_embedding.py) and of the dashboard's search  *)
(* handler (fraud_dashboard.py).                                           *)
(*                                                                         *)
(* Article text is a sequence of tokens: a word token is a maximal run of  *)
(* word characters, every other token is one non-word character.  A        *)
(* pattern \b(alt|alt|...)\b whose alternatives begin and end with a word  *)
(* character matches exactly when the tokens of one alternative occur as   *)
(* consecutive tokens of the text, compared case-insensitively (re.I).     *)
(* Query strings are sequences of single characters.                       *)
(***************************************************************************)
EXTENDS Integers, Sequences, FiniteSets, TLC

VARIABLES
    FRAUD_REGEX,   \* cfpb_articles.py: the process-wide compiled pattern table
    text,          \* the argument of the next/last tag_fraud call (a Python value)
    nfrags,        \* number of fragments the argument was built from
    status,        \* "idle" | "returned" | "TypeError": how the last call ended
    hits,          \* first component of tag_fraud's return value
    fraud_type,    \* second component of tag_fraud's return value
    deployment,    \* the no-match value the deployment's consumers compare with
    query,         \* the argument of _normalize (sequence of characters)
    norm1,         \* _normalize(query)
    norm2,         \* _normalize(_normalize(query))
    nstatus,       \* "idle" | "once" | "twice": how often _normalize was applied
    rows,          \* the table search_queries of the store
    uses_default,  \* the table's column default of `uses`
    stamp_default, \* whether last_used_at defaults to the time of the insert
    now,           \* the store's clock
    calls,         \* calls of get_or_create_query_embedding started so far
    provider_calls,\* embedding requests the provider has received so far
    pc,            \* per caller: where its call stands
    arg,           \* per caller: the query passed
    norm,          \* per caller: local norm
    h,             \* per caller: local h
    res,           \* per caller: res.data of the lookup
    emb,           \* per caller: local emb
    ret,           \* per caller: the value returned
    err,           \* per caller: the exception that ended the call
    ops,           \* per caller: the requests the call has sent, in order
    s_pc,          \* where the search call of caller 1 stands
    s_args,        \* top_k, threshold, year and keyword of the search call
    rpc_log,       \* the requests the search call has sent to the similarity service
    rpc_data,      \* rpc.data of the similarity request
    results,       \* the list the search call returned
    articles,      \* the table cfpb_articles of the store
    runs,          \* runs of upload_csv and of the embedding script so far
    up_pc,         \* where the run of upload_csv stands
    up_records,    \* upload_csv: records
    up_i,          \* upload_csv: i
    em_pc,         \* where the run of the embedding script stands
    em_rows,       \* the embedding script: rows
    em_i,          \* upsert_embeddings: i
    d_pc,          \* where the dashboard's search handler stands
    d_key,         \* the arguments the handler passed to run_cached_semantic
    d_results,     \* the handler's results
    d_messages,    \* what the handler has put on the page
    memo           \* the entries st.cache_data holds for run_cached_semantic

clsVars == <<FRAUD_REGEX, text, nfrags, status, hits, fraud_type, deployment>>
normVars == <<query, norm1, norm2, nstatus>>
storeVars == <<rows, uses_default, stamp_default, now>>
callVars == <<calls, provider_calls, pc, arg, norm, h, res, emb, ret, err, ops>>
searchVars == <<s_pc, s_args, rpc_log, rpc_data, results>>
cacheVars == <<storeVars, callVars, searchVars>>
artVars == <<articles, runs, up_pc, up_records, up_i, em_pc, em_rows, em_i>>
dashVars == <<d_pc, d_key, d_results, d_messages, memo>>

Range(s) == {s[i] : i \in DOMAIN s}

(***************************************************************************)
(* Bounds of the model.                                                    *)
(***************************************************************************)
MaxFrags == 2
MaxQLen == 5
MaxCalls == 3
MaxTopK == 2
MaxCsvRows == 2
MaxRuns == 3

(***************************************************************************)
(* Python values handed to tag_fraud.                                      *)
(***************************************************************************)
Str(toks) == [kind |-> "str", val |-> toks]
EmptyStr == Str(<<>>)
None == [kind |-> "NoneType", val |-> <<>>]

\* Non-string arguments: None, 0, 7, [], ["x"], b"", b"x", float("nan").
NonStrings ==
    { None,
      [kind |-> "int", val |-> <<"0">>], [kind |-> "int", val |-> <<"7">>],
      [kind |-> "list", val |-> <<>>], [kind |-> "list", val |-> <<"x">>],
      [kind |-> "bytes", val |-> <<>>], [kind |-> "bytes", val |-> <<"x">>],
      [kind |-> "float", val |-> <<"nan">>] }

\* Python truth value testing.
Truthy(v) ==
    CASE v.kind = "NoneType" -> FALSE
      [] v.kind = "int" -> v.val # <<"0">>
      [] v.kind = "float" -> v.val # <<"0.0">>
      [] OTHER -> v.val # <<>>

\* Python `a or b`.
Or(a, b) == IF Truthy(a) THEN a ELSE b

(***************************************************************************)
(* The taxonomy table, in insertion order.                                 *)
(***************************************************************************)
FRAUD_PATTERNS ==
    << "identity_theft", "account_takeover", "check_fraud", "card_fraud",
       "wire_transfer", "phishing", "crypto", "romance", "pig_butchering",
       "money_laundering",
       "udap", "reg_e", "reg_z", "fcra", "debt_collection", "loan_servicing",
       "mortgage_misconduct", "auto_lending", "student_loan", "remittance",
       "credit_furnishing", "payments_app_failure", "privacy_data_abuse",
       "generic" >>

\* The alternatives of each pattern of the form \b(...)\b, as token sequences.
Alternatives(k) ==
    CASE k = "identity_theft" ->
            { <<"identity", " ", "theft">>, <<"stolen", " ", "identity">>,
              <<"synthetic", " ", "identity">> }
      [] k = "account_takeover" ->
            { <<"account", " ", "takeover">>, <<"ato">>, <<"sim", " ", "swap">>,
              <<"credential", " ", "stuffing">> }
      [] k = "check_fraud" ->
            { <<"check", " ", "fraud">>, <<"fake", " ", "check">>,
              <<"counterfeit", " ", "check">>, <<"check", " ", "kiting">> }
      [] k = "card_fraud" ->
            { <<a, " ", "card", " ", b>> :
                a \in {"credit", "debit"},
                b \in {"fraud", "skimming", "cloning", "chargeback"} }
      [] k = "wire_transfer" ->
            { <<"wire", " ", "fraud">>, <<"unauthorized", " ", "wire">>,
              <<"zelle">>, <<"money", " ", "transfer", " ", "fraud">> }
      [] k = "phishing" ->
            { <<"phish">>, <<"phishing">>, <<"smishing">>, <<"vishing">> }
      [] k = "romance" -> { <<"romance", " ", "scam">>, <<"catfish">> }
      [] k = "pig_butchering" ->
            { <<"pig", " ", "butcher">>, <<"pig", "-", "butcher">>,
              <<"pigbutcher">>, <<"pig", " ", "butchering">>,
              <<"pig", "-", "butchering">>, <<"pigbutchering">> }
      [] k = "money_laundering" ->
            { <<"money", " ", "laundering">>, <<"laundered">>, <<"aml">> }
      [] k = "udap" -> { <<"unfair">>, <<"deceptive">>, <<"abusive">> }
      [] k = "reg_e" ->
            { <<"reg", " ", "e">>, <<"regulation", " ", "e">>,
              <<"electronic", " ", "fund", " ", "transfer", " ", "act">>,
              <<"efta">>, <<"unauthorized", " ", "transfer">>,
              <<"error", " ", "resolution">> }
      [] k = "reg_z" ->
            { <<"reg", " ", "z">>, <<"regulation", " ", "z">>,
              <<"truth", " ", "in", " ", "lending", " ", "act">>,
              <<"billing", " ", "error">> }
      [] k = "fcra" ->
            { <<"fcra">>, <<"credit", " ", "reporting">>, <<"reinvestigate">>,
              <<"consumer", " ", "report">>,
              <<"inaccurate", " ", "information">> }
      [] k = "debt_collection" ->
            { <<"debt", " ", "collection">>, <<"collector">>, <<"fdcpa">>,
              <<"collection", " ", "lawsuit">> }
      [] k = "loan_servicing" ->
            { <<"servicing">>, <<"loan", " ", "modification">>,
              <<"forbearance">>, <<"deferral">> }
      [] k = "mortgage_misconduct" ->
            { <<"mortgage">>, <<"refinance">>, <<"apr">>,
              <<"closing", " ", "disclosure">>, <<"loan", " ", "estimate">> }
      [] k = "auto_lending" ->
            { <<"auto", " ", "loan">>, <<"vehicle", " ", "financing">>,
              <<"dealer", " ", "markup">>, <<"indirect", " ", "auto">> }
      [] k = "student_loan" ->
            { <<"student", " ", "loan">>, <<"servicer">>, <<"fafsa">>,
              <<"borrower", " ", "defense">> }
      [] k = "remittance" ->
            { <<"remittance">>, <<"exchange", " ", "rate">>,
              <<"transfer", " ", "fee">>, <<"prepaid", " ", "card">> }
      [] k = "credit_furnishing" ->
            { <<"furnish">>, <<"furnisher">>, <<"credit", " ", "bureau">>,
              <<"data", " ", "furnishing">> }
      [] k = "payments_app_failure" ->
            { <<"cash", " ", "app">>, <<"peer", "-", "to", "-", "peer">>,
              <<"p2p">>, <<"dispute", " ", "investigation">> }
      [] k = "privacy_data_abuse" ->
            { <<"data", " ", "harvesting">>, <<"data", " ", "sharing">>,
              <<"data", " ", "breach">>, <<"privacy", " ", "violation">> }
      [] k = "generic" ->
            { <<"fraud">>, <<"scam">>, <<"scheme">>, <<"deceptive">> }
      [] OTHER -> {}

\* The patterns by key, as compiled.
Compiled == [k \in Range(FRAUD_PATTERNS) |-> Alternatives(k)]

(***************************************************************************)
(* Case folding (re.I) of the word tokens the inputs use.                  *)
(***************************************************************************)
CaseFold(w) ==
    CASE w = "Stolen" -> "stolen"
      [] w = "Identity" -> "identity"
      [] w = "ATO" -> "ato"
      [] w = "Regulation" -> "regulation"
      [] w = "E" -> "e"
      [] w = "FCRA" -> "fcra"
      [] w = "Zelle" -> "zelle"
      [] OTHER -> w

Folded(toks) == [i \in DOMAIN toks |-> CaseFold(toks[i])]

\* The alternative ph occurs in toks as consecutive tokens.
Occurs(ph, toks) ==
    \E i \in 1..(Len(toks) - Len(ph) + 1) :
        \A j \in 1..Len(ph) : toks[i + j - 1] = ph[j]

\* Words of the input vocabulary that begin with crypto|bitcoin|ethereum, and
\* words that end with fraud|scam|rug; words in which a prefix is followed by
\* a disjoint suffix.
CryptoHead == {"crypto", "bitcoin", "ethereum", "cryptocurrency"}
CryptoTail == {"fraud", "scam", "rug", "drug"}
CryptoWhole == {"cryptoscam", "cryptofraud"}

\* \b(crypto|bitcoin|ethereum).*(fraud|scam|rug)\b : the head starts a word,
\* the tail ends a word at or after it, and `.` does not cross a newline.
CryptoSearch(toks) ==
    \/ \E i \in DOMAIN toks : toks[i] \in CryptoWhole
    \/ \E i \in DOMAIN toks : \E j \in DOMAIN toks :
          /\ i < j
          /\ toks[i] \in CryptoHead \cup CryptoWhole
          /\ toks[j] \in CryptoTail \cup CryptoWhole
          /\ \A m \in (i + 1)..(j - 1) : toks[m] # "\n"

\* rx.search(t) for the compiled pattern rx and the string t (tokens).
Search(rx, toks) ==
    LET folded == Folded(toks) IN
    IF rx = "crypto"
    THEN CryptoSearch(folded)
    ELSE \E ph \in Compiled[rx] : Occurs(ph, folded)

\* FRAUD_REGEX = {k: re.compile(v, re.I) for k, v in FRAUD_PATTERNS.items()}
CompileAll ==
    [i \in DOMAIN FRAUD_PATTERNS |->
        [key |-> FRAUD_PATTERNS[i], rx |-> FRAUD_PATTERNS[i]]]

(***************************************************************************)
(* classify_violation                                                      *)
(***************************************************************************)
\* A slip: the categories tried in the insertion order of the taxonomy table.
priority_insertion_order == SubSeq(FRAUD_PATTERNS, 1, Len(FRAUD_PATTERNS) - 1)

\* A slip: the last category left out of the list.
priority_without_remittance ==
    << "identity_theft", "account_takeover", "card_fraud", "check_fraud",
       "wire_transfer", "phishing", "crypto", "pig_butchering", "romance",
       "money_laundering",
       "fcra", "reg_e", "reg_z", "udap", "debt_collection",
       "loan_servicing", "mortgage_misconduct", "auto_lending",
       "student_loan", "credit_furnishing", "payments_app_failure",
       "privacy_data_abuse" >>

priority ==
    << "identity_theft", "account_takeover", "card_fraud", "check_fraud",
       "wire_transfer", "phishing", "crypto", "pig_butchering", "romance",
       "money_laundering",
       "fcra", "reg_e", "reg_z", "udap", "debt_collection",
       "loan_servicing", "mortgage_misconduct", "auto_lending",
       "student_loan", "credit_furnishing", "payments_app_failure",
       "privacy_data_abuse", "remittance" >>

RECURSIVE FirstIn(_, _, _)
\* for p in order[i..]: if p in matched: return p ;  return "generic"
FirstIn(order, i, matched) ==
    IF i > Len(order) THEN "generic"
    ELSE IF order[i] \in Range(matched) THEN order[i]
    ELSE FirstIn(order, i + 1, matched)

RECURSIVE LastIn(_, _, _, _)
LastIn(order, i, matched, found) ==
    IF i > Len(order) THEN found
    ELSE LastIn(order, i + 1, matched, IF order[i] \in Range(matched) THEN order[i] ELSE found)

\* A slip: the loop records the match and goes on, so the last match wins.
classify_violation_no_return(matched) == LastIn(priority, 1, matched, "generic")

\* A slip: the other fallback convention, "not_fraud" when nothing matches.
classify_violation_sentinel(matched) ==
    IF \E i \in DOMAIN priority : priority[i] \in Range(matched)
    THEN FirstIn(priority, 1, matched)
    ELSE "not_fraud"

classify_violation(matched) == FirstIn(priority, 1, matched)

(***************************************************************************)
(* tag_fraud                                                               *)
(***************************************************************************)
\* A slip: the matched keys listed in priority order.
Comprehension_by_priority(table, toks) ==
    LET keys == {table[i].key : i \in {j \in DOMAIN table : Search(table[j].rx, toks)}}
    IN  SelectSeq(priority \o <<"generic">>, LAMBDA k : k \in keys)

\* [k for k, rx in FRAUD_REGEX.items() if rx.search(t)]
Comprehension(table, toks) ==
    LET keep == SelectSeq(table, LAMBDA e : Search(e.rx, toks))
    IN  [i \in DOMAIN keep |-> keep[i].key]

\* A slip: the call moves the patterns that matched to the front of the table.
tag_fraud_reordering ==
    /\ Or(text, EmptyStr).kind = "str"
    /\ LET toks == Or(text, EmptyStr).val
           hit(e) == Search(e.rx, toks)
       IN  /\ hits' = Comprehension(FRAUD_REGEX, toks)
           /\ FRAUD_REGEX' = SelectSeq(FRAUD_REGEX, hit)
                                \o SelectSeq(FRAUD_REGEX, LAMBDA e : ~hit(e))
    /\ fraud_type' = classify_violation(hits')
    /\ status' = "returned"
    /\ UNCHANGED <<text, nfrags, deployment>>
    /\ UNCHANGED <<normVars, cacheVars, artVars, dashVars>>

tag_fraud ==
    /\ LET t == Or(text, EmptyStr) IN
         IF t.kind = "str"
         THEN   /\ hits' = Comprehension(FRAUD_REGEX, t.val)
                /\ fraud_type' = classify_violation(hits')
                /\ status' = "returned"
         ELSE \* rx.search raises TypeError on the first pattern
                /\ hits' = <<>>
                /\ fraud_type' = "none"
                /\ status' = "TypeError"
    /\ UNCHANGED <<FRAUD_REGEX, text, nfrags, deployment>>
    /\ UNCHANGED <<normVars, cacheVars, artVars, dashVars>>

(***************************************************************************)
(* The callers of tag_fraud: the texts they pass.                          *)
(***************************************************************************)
Fragments ==
    { <<"identity", " ", "theft">>, <<"Stolen", " ", "Identity">>,
      <<"identity">>, <<"theft">>,
      <<"account", " ", "takeover">>, <<"ATO">>,
      <<"check", " ", "fraud">>, <<"credit", " ", "card", " ", "fraud">>,
      <<"wire", " ", "fraud">>, <<"Zelle">>, <<"phishing">>,
      <<"cryptocurrency">>, <<"drug">>,
      <<"romance", " ", "scam">>, <<"pig", "-", "butchering">>,
      <<"laundered">>, <<"deceptive">>, <<"Regulation", " ", "E">>,
      <<"billing", " ", "error">>, <<"FCRA">>, <<"collector">>,
      <<"forbearance">>, <<"mortgage">>, <<"auto", " ", "loan">>,
      <<"student", " ", "loan">>, <<"remittance">>, <<"furnisher">>,
      <<"peer", "-", "to", "-", "peer">>, <<"data", " ", "breach">>,
      <<"scheme">>, <<"consumers">> }

Separators == {" ", "\n"}

\* The caller passes a longer text: one more fragment after a separator.
AppendFragment ==
    /\ text.kind = "str"
    /\ nfrags < MaxFrags
    /\ \E f \in Fragments : \E s \in Separators :
          text' = Str(IF text.val = <<>> THEN f ELSE text.val \o <<s>> \o f)
    /\ nfrags' = nfrags + 1
    /\ status' = "idle" /\ hits' = <<>> /\ fraud_type' = "none"
    /\ UNCHANGED <<FRAUD_REGEX, deployment>>
    /\ UNCHANGED <<normVars, cacheVars, artVars, dashVars>>

\* In place of the empty string or of another non-string the caller passes
\* something that is not a string.
PassNonString ==
    /\ nfrags = 0
    /\ \E v \in NonStrings : text' = v
    /\ nfrags' = 0
    /\ status' = "idle" /\ hits' = <<>> /\ fraud_type' = "none"
    /\ UNCHANGED <<FRAUD_REGEX, deployment>>
    /\ UNCHANGED <<normVars, cacheVars, artVars, dashVars>>

\* After a call has ended the caller passes the empty string.
PassEmpty ==
    /\ status # "idle"
    /\ text' = EmptyStr
    /\ nfrags' = 0
    /\ status' = "idle" /\ hits' = <<>> /\ fraud_type' = "none"
    /\ UNCHANGED <<FRAUD_REGEX, deployment>>
    /\ UNCHANGED <<normVars, cacheVars, artVars, dashVars>>

NormIdle ==
    /\ query = <<>> /\ norm1 = <<>> /\ norm2 = <<>> /\ nstatus = "idle"

\* SQL NULL / Python None in a column of search_queries.
Null == 0 - 1

Callers == {1, 2}

NoVector == [of |-> <<>>, variant |-> 0]

\* The caller that runs search.
Searcher == 1

NoArgs == [top_k |-> 0, threshold |-> 0, year |-> Null, keyword |-> <<>>]

NoData == [null |-> TRUE, table |-> {}, rows |-> <<>>]

\* No call of search made yet.
SearchIdle ==
    /\ s_pc = "idle" /\ s_args = NoArgs
    /\ rpc_log = <<>> /\ rpc_data = NoData /\ results = <<>>

\* No call of get_or_create_query_embedding made yet.
CallsIdle ==
    /\ calls = 0 /\ provider_calls = 0
    /\ pc = [p \in Callers |-> "idle"]
    /\ arg = [p \in Callers |-> <<>>]
    /\ norm = [p \in Callers |-> <<>>]
    /\ h = [p \in Callers |-> <<>>]
    /\ res = [p \in Callers |-> <<>>]
    /\ emb = [p \in Callers |-> NoVector]
    /\ ret = [p \in Callers |-> NoVector]
    /\ err = [p \in Callers |-> "none"]
    /\ ops = [p \in Callers |-> <<>>]
    /\ SearchIdle

\* No run of upload_csv or of the embedding script yet, the table empty.
ArtIdle ==
    /\ articles = <<>> /\ runs = 0
    /\ up_pc = "idle" /\ up_records = <<>> /\ up_i = 0
    /\ em_pc = "idle" /\ em_rows = <<>> /\ em_i = 0

\* The dashboard's search tab not used yet.
DashIdle ==
    /\ d_pc = "idle" /\ d_key = <<>> /\ d_results = <<>>
    /\ d_messages = {} /\ memo = {}

CacheIdle ==
    /\ rows = <<>> /\ uses_default = 1 /\ stamp_default = TRUE /\ now = 0
    /\ CallsIdle

\* After import of cfpb_articles: the table compiled, no call made yet.
ClsStart ==
    /\ FRAUD_REGEX = CompileAll
    /\ text = EmptyStr /\ nfrags = 0
    /\ status = "idle" /\ hits = <<>> /\ fraud_type = "none"

\* The fallback conventions of the consumers: "generic" documented by the
\* dashboard's category table, "not_fraud" filtered by ml_train and counted by
\* the dashboard.
Conventions == {"generic", "not_fraud"}

ClsInit ==
    ClsStart /\ deployment = "generic" /\ NormIdle /\ CacheIdle /\ ArtIdle /\ DashIdle

VariantInit ==
    ClsStart /\ deployment \in Conventions /\ NormIdle /\ CacheIdle /\ ArtIdle /\ DashIdle

ClsNext == tag_fraud \/ AppendFragment \/ PassNonString \/ PassEmpty

vars == <<clsVars, normVars, cacheVars, artVars, dashVars>>

ClsSpec == ClsInit /\ [][ClsNext]_vars

VariantSpec == VariantInit /\ [][ClsNext]_vars

(***************************************************************************)
(* semantic_search.py: _normalize.  A string is a sequence of characters.  *)
(***************************************************************************)
UpperCase ==
    << "A", "B", "C", "D", "E", "F", "G", "H", "I", "J", "K", "L", "M",
       "N", "O", "P", "Q", "R", "S", "T", "U", "V", "W", "X", "Y", "Z" >>
LowerCase ==
    << "a", "b", "c", "d", "e", "f", "g", "h", "i", "j", "k", "l", "m",
       "n", "o", "p", "q", "r", "s", "t", "u", "v", "w", "x", "y", "z" >>

\* The characters str.isspace() and the pattern \s accept.
Whitespace == {" ", "\t", "\n", "\r", "\f"}

LowerChar(c) ==
    IF \E i \in DOMAIN UpperCase : UpperCase[i] = c
    THEN LowerCase[CHOOSE i \in DOMAIN UpperCase : UpperCase[i] = c]
    ELSE c

\* str.lower()
lower(s) == [i \in DOMAIN s |-> LowerChar(s[i])]

RECURSIVE lstrip(_, _)
\* str.lstrip(chars)
lstrip(s, chars) ==
    IF s # <<>> /\ Head(s) \in chars THEN lstrip(Tail(s), chars) ELSE s

RECURSIVE rstrip(_, _)
\* str.rstrip(chars)
rstrip(s, chars) ==
    IF s # <<>> /\ s[Len(s)] \in chars
    THEN rstrip(SubSeq(s, 1, Len(s) - 1), chars)
    ELSE s

\* A slip: str.strip(" "), which removes blanks only.
strip_blanks(s) == rstrip(lstrip(s, {" "}), {" "})

\* str.strip(): leading and trailing whitespace removed
strip(s) == rstrip(lstrip(s, Whitespace), Whitespace)

RECURSIVE replace_double_blank(_)
\* A slip: s.replace("  ", " "), one left-to-right pass over pairs of blanks.
replace_double_blank(s) ==
    IF s = <<>> THEN <<>>
    ELSE IF Len(s) >= 2 /\ s[1] = " " /\ s[2] = " "
         THEN <<" ">> \o replace_double_blank(SubSeq(s, 3, Len(s)))
         ELSE <<Head(s)>> \o replace_double_blank(Tail(s))

RECURSIVE sub_ws(_)
\* re.sub(r"\s+", " ", s): every maximal run of whitespace becomes one space
sub_ws(s) ==
    IF s = <<>> THEN <<>>
    ELSE IF Head(s) \in Whitespace
         THEN <<" ">> \o sub_ws(lstrip(Tail(s), Whitespace))
         ELSE <<Head(s)>> \o sub_ws(Tail(s))

\* A slip: the query normalised without .lower().
_normalize_keeps_case(q) == sub_ws(strip(q))

\* lines 28-32: q.lower().strip(), then re.sub(r"\s+", " ", q)
_normalize(q) == sub_ws(strip(lower(q)))

\* "  Zelle   Unauthorized TRANSFER "
ExampleQuery ==
    << " ", " ", "Z", "e", "l", "l", "e", " ", " ", " ",
       "U", "n", "a", "u", "t", "h", "o", "r", "i", "z", "e", "d", " ",
       "T", "R", "A", "N", "S", "F", "E", "R", " " >>

\* The characters a caller types into a query.
QueryChars == {"a", "B", " ", "\t", "\n"}

\* The caller extends the query by one character.
TypeChar ==
    /\ Len(query) < MaxQLen
    /\ \E c \in QueryChars : query' = Append(query, c)
    /\ norm1' = <<>> /\ norm2' = <<>> /\ nstatus' = "idle"
    /\ UNCHANGED <<clsVars, cacheVars, artVars, dashVars>>

\* norm = _normalize(query)
CallNormalize ==
    /\ nstatus = "idle"
    /\ norm1' = _normalize(query)
    /\ nstatus' = "once"
    /\ UNCHANGED <<query, norm2>>
    /\ UNCHANGED <<clsVars, cacheVars, artVars, dashVars>>

\* _normalize applied to its own result
CallNormalizeAgain ==
    /\ nstatus = "once"
    /\ norm2' = _normalize(norm1)
    /\ nstatus' = "twice"
    /\ UNCHANGED <<query, norm1>>
    /\ UNCHANGED <<clsVars, cacheVars, artVars, dashVars>>

NormInit ==
    /\ query \in {<<>>, ExampleQuery}
    /\ norm1 = <<>> /\ norm2 = <<>> /\ nstatus = "idle"
    /\ ClsStart /\ deployment = "generic"
    /\ CacheIdle
    /\ ArtIdle /\ DashIdle

NormNext == TypeChar \/ CallNormalize \/ CallNormalizeAgain

NormSpec == NormInit /\ [][NormNext]_vars

(***************************************************************************)
(* semantic_search.py: the query embedding cache.  The table               *)
(* search_queries is a sequence of rows; a caller's call is a sequence of  *)
(* requests (lookup, update or embedding and insert), each one step.       *)
(***************************************************************************)
\* hashlib.sha256(q.encode("utf-8")).hexdigest(), taken as collision free
_qhash(q) == <<"sha256", q>>

\* The queries the callers pass: "a", "A ", " a\t", "B  a", "b a".
CacheQueries ==
    { <<"a">>, <<"A", " ">>, <<" ", "a", "\t">>,
      <<"B", " ", " ", "a">>, <<"b", " ", "a">> }

\* The vectors the provider may return for one input.
Variants == {1, 2}

\* get_or_create_query_embedding(query): lines 50-51
Enter(p, q) ==
    /\ pc[p] \in {"idle", "done", "raised"}
    /\ p = Searcher => s_pc = "idle"
    /\ calls < MaxCalls
    /\ calls' = calls + 1
    /\ arg' = [arg EXCEPT ![p] = q]
    /\ norm' = [norm EXCEPT ![p] = _normalize(q)]
    /\ h' = [h EXCEPT ![p] = _qhash(_normalize(q))]
    /\ res' = [res EXCEPT ![p] = <<>>]
    /\ emb' = [emb EXCEPT ![p] = NoVector]
    /\ ret' = [ret EXCEPT ![p] = NoVector]
    /\ err' = [err EXCEPT ![p] = "none"]
    /\ ops' = [ops EXCEPT ![p] = <<>>]
    /\ pc' = [pc EXCEPT ![p] = "lookup"]
    /\ UNCHANGED <<storeVars, provider_calls>>
    /\ UNCHANGED <<clsVars, normVars, artVars>>

\* A caller other than search calls get_or_create_query_embedding.
Call(p, q) == Enter(p, q) /\ UNCHANGED <<searchVars, dashVars>>

\* .select("embedding, uses").eq("query_hash", h).limit(1): one of the rows
\* with this hash, if there is any.
Select(table, hash) ==
    { <<[embedding |-> table[i].embedding, uses |-> table[i].uses]>> :
         i \in {j \in DOMAIN table : table[j].query_hash = hash} }

\* A slip: a failed lookup sent a second time.
Lookup_retry(p) ==
    /\ pc[p] = "lookup"
    /\ ops' = [ops EXCEPT ![p] = Append(@, "select")]
    /\ \/ /\ Select(rows, h[p]) # {}
          /\ \E r \in Select(rows, h[p]) : res' = [res EXCEPT ![p] = r]
          /\ pc' = [pc EXCEPT ![p] = "update"]
          /\ UNCHANGED err
       \/ /\ Select(rows, h[p]) = {}
          /\ res' = [res EXCEPT ![p] = <<>>]
          /\ pc' = [pc EXCEPT ![p] = "embed"]
          /\ UNCHANGED err
       \/ /\ err' = [err EXCEPT ![p] = "StoreError"]
          /\ pc' = [pc EXCEPT ![p] = IF ops[p] = <<>> THEN "lookup" ELSE "raised"]
          /\ UNCHANGED res
    /\ UNCHANGED <<storeVars, calls, provider_calls, arg, norm, h, emb, ret>>
    /\ UNCHANGED <<clsVars, normVars, searchVars, artVars, dashVars>>

\* line 54-55, and the request failing
Lookup(p) ==
    /\ pc[p] = "lookup"
    /\ ops' = [ops EXCEPT ![p] = Append(@, "select")]
    /\ \/ /\ Select(rows, h[p]) # {}
          /\ \E r \in Select(rows, h[p]) : res' = [res EXCEPT ![p] = r]
          /\ pc' = [pc EXCEPT ![p] = "update"]
          /\ UNCHANGED err
       \/ /\ Select(rows, h[p]) = {}
          /\ res' = [res EXCEPT ![p] = <<>>]
          /\ pc' = [pc EXCEPT ![p] = "embed"]
          /\ UNCHANGED err
       \/ /\ err' = [err EXCEPT ![p] = "StoreError"]
          /\ pc' = [pc EXCEPT ![p] = "raised"]
          /\ UNCHANGED res
    /\ UNCHANGED <<storeVars, calls, provider_calls, arg, norm, h, emb, ret>>
    /\ UNCHANGED <<clsVars, normVars, searchVars, artVars, dashVars>>

\* Python `x or 0` for a column value
OrZero(x) == IF x = Null \/ x = 0 THEN 0 ELSE x

\* A slip: the update sent without .eq("query_hash", h), so to every row.
UpdateUses_unfiltered(table, hash, uses, stamp) ==
    [i \in DOMAIN table |-> [table[i] EXCEPT !.uses = uses, !.last_used_at = stamp]]

\* A slip: the update sent without the new use count.
UpdateUses_stamp_only(table, hash, uses, stamp) ==
    [i \in DOMAIN table |->
        IF table[i].query_hash = hash
        THEN [table[i] EXCEPT !.last_used_at = stamp]
        ELSE table[i]]

\* A slip: the table replaced by the rows the update matched.
UpdateUses_only_matched(table, hash, uses, stamp) ==
    LET kept == SelectSeq(table, LAMBDA r : r.query_hash = hash)
    IN  [i \in DOMAIN kept |->
            [kept[i] EXCEPT !.uses = uses, !.last_used_at = stamp]]

\* .update({"uses": ..., "last_used_at": "now()"}).eq("query_hash", h)
UpdateUses(table, hash, uses, stamp) ==
    [i \in DOMAIN table |->
        IF table[i].query_hash = hash
        THEN [table[i] EXCEPT !.uses = uses, !.last_used_at = stamp]
        ELSE table[i]]

\* lines 56-62: cache hit, and the update failing
Hit(p) ==
    /\ pc[p] = "update"
    /\ ops' = [ops EXCEPT ![p] = Append(@, "update")]
    /\ \/ /\ now' = now + 1
          /\ rows' = UpdateUses(rows, h[p], OrZero(res[p][1].uses) + 1, now')
          /\ ret' = [ret EXCEPT ![p] = res[p][1].embedding]
          /\ pc' = [pc EXCEPT ![p] = "done"]
          /\ UNCHANGED err
       \/ /\ err' = [err EXCEPT ![p] = "StoreError"]
          /\ pc' = [pc EXCEPT ![p] = "raised"]
          /\ UNCHANGED <<rows, now, ret>>
    /\ UNCHANGED <<uses_default, stamp_default, calls, provider_calls,
                   arg, norm, h, res, emb>>
    /\ UNCHANGED <<clsVars, normVars, searchVars, artVars, dashVars>>

\* A slip: the provider's failure caught and raised again as the store's.
Embed_generic_error(p) ==
    /\ pc[p] = "embed"
    /\ ops' = [ops EXCEPT ![p] = Append(@, "embed")]
    /\ provider_calls' = provider_calls + 1
    /\ \/ /\ \E v \in Variants :
                emb' = [emb EXCEPT ![p] = [of |-> norm[p], variant |-> v]]
          /\ pc' = [pc EXCEPT ![p] = "insert"]
          /\ UNCHANGED err
       \/ /\ err' = [err EXCEPT ![p] = "StoreError"]
          /\ pc' = [pc EXCEPT ![p] = "raised"]
          /\ UNCHANGED emb
    /\ UNCHANGED <<storeVars, calls, arg, norm, h, res, ret>>
    /\ UNCHANGED <<clsVars, normVars, searchVars, artVars, dashVars>>

\* line 66: client.embeddings.create(model=MODEL, input=norm), and it failing
Embed(p) ==
    /\ pc[p] = "embed"
    /\ ops' = [ops EXCEPT ![p] = Append(@, "embed")]
    /\ provider_calls' = provider_calls + 1
    /\ \/ /\ \E v \in Variants :
                emb' = [emb EXCEPT ![p] = [of |-> norm[p], variant |-> v]]
          /\ pc' = [pc EXCEPT ![p] = "insert"]
          /\ UNCHANGED err
       \/ /\ err' = [err EXCEPT ![p] = "ProviderError"]
          /\ pc' = [pc EXCEPT ![p] = "raised"]
          /\ UNCHANGED emb
    /\ UNCHANGED <<storeVars, calls, arg, norm, h, res, ret>>
    /\ UNCHANGED <<clsVars, normVars, searchVars, artVars, dashVars>>

\* A slip: the insert sends "uses": 0.
InsertRow_uses_zero(table, text_, hash, vector, stamp) ==
    Append(table, [query_text |-> text_, query_hash |-> hash,
                   embedding |-> vector, uses |-> 0,
                   last_used_at |-> IF stamp_default THEN stamp ELSE Null])

\* .insert({"query_text": norm, "query_hash": h, "embedding": emb}): the
\* columns the call does not send take the table's defaults.
InsertRow(table, text_, hash, vector, stamp) ==
    Append(table, [query_text |-> text_, query_hash |-> hash,
                   embedding |-> vector, uses |-> uses_default,
                   last_used_at |-> IF stamp_default THEN stamp ELSE Null])

\* A slip of the schema: no unique key on query_hash.
UniqueKey_absent(table, hash) == TRUE

\* The store's unique key on query_hash: an insert of a hash the table holds
\* is rejected.
UniqueKey(table, hash) == \A i \in DOMAIN table : table[i].query_hash # hash

\* lines 69-75: the insert and the return, and the insert failing or rejected
Insert(p) ==
    /\ pc[p] = "insert"
    /\ ops' = [ops EXCEPT ![p] = Append(@, "insert")]
    /\ \/ /\ UniqueKey(rows, h[p])
          /\ now' = now + 1
          /\ rows' = InsertRow(rows, norm[p], h[p], emb[p], now')
          /\ ret' = [ret EXCEPT ![p] = emb[p]]
          /\ pc' = [pc EXCEPT ![p] = "done"]
          /\ UNCHANGED err
       \/ /\ err' = [err EXCEPT ![p] = "StoreError"]
          /\ pc' = [pc EXCEPT ![p] = "raised"]
          /\ UNCHANGED <<rows, now, ret>>
    /\ UNCHANGED <<uses_default, stamp_default, calls, provider_calls,
                   arg, norm, h, res, emb>>
    /\ UNCHANGED <<clsVars, normVars, searchVars, artVars, dashVars>>

\* The table as created: empty, with one of the column defaults a schema can
\* give `uses` and last_used_at.
StoreInit ==
    /\ rows = <<>>
    /\ uses_default \in {Null, 0, 1}
    /\ stamp_default \in BOOLEAN
    /\ now = 0

CacheInit ==
    /\ StoreInit
    /\ CallsIdle
    /\ ClsStart /\ deployment = "generic"
    /\ NormIdle
    /\ ArtIdle /\ DashIdle

\* The table as the data model documents it: a row is created with a use
\* count of 1 and a time stamp.
DocumentedStore ==
    /\ rows = <<>>
    /\ uses_default = 1
    /\ stamp_default = TRUE
    /\ now = 0

CacheDocInit ==
    /\ DocumentedStore
    /\ CallsIdle
    /\ ClsStart /\ deployment = "generic"
    /\ NormIdle
    /\ ArtIdle /\ DashIdle

\* One caller: each call ends before the next begins.
SeqNext ==
    \/ \E q \in CacheQueries : Call(1, q)
    \/ Lookup(1)
    \/ Hit(1)
    \/ Embed(1)
    \/ Insert(1)

CacheSeqSpec == CacheInit /\ [][SeqNext]_vars

CacheDocSpec == CacheDocInit /\ [][SeqNext]_vars

\* Two callers whose calls interleave request by request.
ConcNext ==
    \/ \E p \in Callers : \E q \in CacheQueries : Call(p, q)
    \/ \E p \in Callers : Lookup(p)
    \/ \E p \in Callers : Hit(p)
    \/ \E p \in Callers : Embed(p)
    \/ \E p \in Callers : Insert(p)

ConcSpec == CacheDocInit /\ [][ConcNext]_vars

(***************************************************************************)
(* semantic_search.py: search.  Similarities are in hundredths; titles and *)
(* dates are strings (sequences of characters), empty when missing.        *)
(***************************************************************************)
\* "match_count": 100
MATCH_COUNT == 100

\* The articles the similarity service may hold, with their similarity to
\* the query: 0.9, 0.6, 0.6 and 0.3.
Articles ==
    { [url |-> "u1", similarity |-> 90, title |-> <<"C", "f", " ", "a">>,
       date |-> <<"2", "0", "2", "4", "-", "0", "1">>],
      [url |-> "u2", similarity |-> 60, title |-> <<"b">>,
       date |-> <<"2", "0", "2", "3", "-", "1", "2">>],
      [url |-> "u3", similarity |-> 60, title |-> <<>>,
       date |-> <<"2", "0", "2", "4", "-", "0", "2">>],
      [url |-> "u4", similarity |-> 30, title |-> <<"c", "f">>,
       date |-> <<>>] }

\* The orderings of a set of rows.
Orderings(S) ==
    { f \in [1..Cardinality(S) -> S] :
         \A i \in DOMAIN f : \A j \in DOMAIN f : i # j => f[i] # f[j] }

\* match_cfpb_articles(query_embedding, match_count, match_threshold): the
\* articles held whose similarity reaches the threshold, at most match_count
\* of them, in an order the caller may not rely on.
Match(table, req) ==
    LET eligible == {a \in table : a.similarity >= req.match_threshold}
    IN  { o \in Orderings(eligible) : Len(o) <= req.match_count }

\* The parameters of the calls of search.
TopKs == (1..MaxTopK) \cup {5}
Thresholds == {0, 55, 95}
Years == {Null, 0, 2024}
Keywords == {<<>>, <<"C", "F">>}
SearchQueries == {<<"A", " ">>, <<"b", " ", "a">>}

SearchArgs ==
    [top_k : TopKs, threshold : Thresholds, year : Years, keyword : Keywords]

\* str(year)
str(n) ==
    CASE n = 2024 -> <<"2", "0", "2", "4">>
      [] n = 0 -> <<"0">>
      [] OTHER -> <<>>

\* A slip: the rows without a date kept by the year filter.
YearFilter_keeps_undated(rs, year) ==
    IF year # Null /\ year # 0
    THEN SelectSeq(rs, LAMBDA r : r.date = <<>> \/ Occurs(str(year), r.date))
    ELSE rs

\* lines 110-111: if year: keep the rows with a date that contains str(year)
YearFilter(rs, year) ==
    IF year # Null /\ year # 0
    THEN SelectSeq(rs, LAMBDA r : r.date # <<>> /\ Occurs(str(year), r.date))
    ELSE rs

\* A slip: the keyword compared without .lower().
KeywordFilter_case_sensitive(rs, keyword) ==
    IF keyword # <<>>
    THEN SelectSeq(rs, LAMBDA r : Occurs(keyword, lower(r.title)))
    ELSE rs

\* lines 112-113: if keyword: keep the rows whose title contains it, both
\* in lower case
KeywordFilter(rs, keyword) ==
    IF keyword # <<>>
    THEN SelectSeq(rs, LAMBDA r : Occurs(lower(keyword), lower(r.title)))
    ELSE rs

RECURSIVE sorted_reversed(_)
\* A slip: sorted(rows, key=...)[::-1], which turns equal keys around.
sorted_reversed(rs) ==
    IF rs = <<>> THEN <<>>
    ELSE LET x == Head(rs)
             rest == sorted_reversed(Tail(rs))
         IN  SelectSeq(rest, LAMBDA r : r.similarity >= x.similarity)
                \o <<x>>
                \o SelectSeq(rest, LAMBDA r : r.similarity < x.similarity)

RECURSIVE sorted_desc(_)
\* sorted(rows, key=lambda r: r["similarity"], reverse=True): stable
sorted_desc(rs) ==
    IF rs = <<>> THEN <<>>
    ELSE LET x == Head(rs)
             rest == sorted_desc(Tail(rs))
         IN  SelectSeq(rest, LAMBDA r : r.similarity > x.similarity)
                \o <<x>>
                \o SelectSeq(rest, LAMBDA r : r.similarity <= x.similarity)

\* A slip: the list returned whole.
slice_all(rs, n) == rs

\* rs[:n] for a positive n
slice(rs, n) == SubSeq(rs, 1, IF n < Len(rs) THEN n ELSE Len(rs))

\* A slip: the titles of the rows returned in lower case.
PostProcess_lowered(data, a) ==
    LET rs == IF data.null THEN <<>> ELSE data.rows
        kept == slice(sorted_desc(KeywordFilter(YearFilter(rs, a.year), a.keyword)),
                      a.top_k)
    IN  [k \in DOMAIN kept |-> [kept[k] EXCEPT !.title = lower(@)]]

\* lines 107-116: rpc.data or [], the local filters, the sort, the cut
PostProcess(data, a) ==
    LET rs == IF data.null THEN <<>> ELSE data.rows
    IN  slice(sorted_desc(KeywordFilter(YearFilter(rs, a.year), a.keyword)),
              a.top_k)

\* A slip: the request sent with the default threshold of the service.
Request_no_threshold(qvec, threshold) ==
    [query_embedding |-> qvec, match_count |-> MATCH_COUNT, match_threshold |-> 0]

\* A slip: the service asked for a smaller number of rows.
Request_small_count(qvec, threshold) ==
    [query_embedding |-> qvec, match_count |-> 10, match_threshold |-> threshold]

\* lines 101-105: the parameters of the similarity request
Request(qvec, threshold) ==
    [query_embedding |-> qvec, match_count |-> MATCH_COUNT,
     match_threshold |-> threshold]

\* search(query, top_k, threshold, year, keyword): line 98 enters
\* get_or_create_query_embedding
SearchEnter(q, a) ==
    /\ Enter(Searcher, q)
    /\ s_args' = a
    /\ s_pc' = "embedding"
    /\ rpc_log' = <<>> /\ rpc_data' = NoData /\ results' = <<>>

\* search called by a caller other than the dashboard
SearchCall ==
    /\ \E q \in SearchQueries : \E a \in SearchArgs : SearchEnter(q, a)
    /\ UNCHANGED dashVars

\* line 98: an exception of get_or_create_query_embedding ends the search
SearchPropagate ==
    /\ s_pc = "embedding"
    /\ pc[Searcher] = "raised"
    /\ s_pc' = "raised"
    /\ UNCHANGED <<s_args, rpc_log, rpc_data, results>>
    /\ UNCHANGED <<storeVars, callVars, clsVars, normVars, artVars, dashVars>>

\* A slip: rows = rpc.data, so that a null answer ends search with a
\* TypeError.
SearchRpc_without_or ==
    /\ s_pc = "embedding"
    /\ pc[Searcher] = "done"
    /\ LET req == Request(ret[Searcher], s_args.threshold) IN
         /\ rpc_log' = Append(rpc_log, req)
         /\ \/ /\ \E table \in SUBSET Articles : \E o \in Match(table, req) :
                     rpc_data' = [null |-> FALSE, table |-> table, rows |-> o]
               /\ results' = PostProcess(rpc_data', s_args)
               /\ s_pc' = "done"
               /\ UNCHANGED err
            \/ /\ rpc_data' = NoData
               /\ err' = [err EXCEPT ![Searcher] = "TypeError"]
               /\ s_pc' = "raised"
               /\ UNCHANGED results
            \/ /\ err' = [err EXCEPT ![Searcher] = "StoreError"]
               /\ s_pc' = "raised"
               /\ UNCHANGED <<rpc_data, results>>
    /\ UNCHANGED <<s_args, storeVars, calls, provider_calls, pc, arg, norm, h,
                   res, emb, ret, ops>>
    /\ UNCHANGED <<clsVars, normVars, artVars, dashVars>>

\* lines 101-124: the similarity request, its answer (rows, null, or an
\* error) and the rest of search
SearchRpc ==
    /\ s_pc = "embedding"
    /\ pc[Searcher] = "done"
    /\ LET req == Request(ret[Searcher], s_args.threshold) IN
         /\ rpc_log' = Append(rpc_log, req)
         /\ \/ /\ \E table \in SUBSET Articles : \E o \in Match(table, req) :
                     rpc_data' = [null |-> FALSE, table |-> table, rows |-> o]
               /\ results' = PostProcess(rpc_data', s_args)
               /\ s_pc' = "done"
               /\ UNCHANGED err
            \/ /\ rpc_data' = NoData
               /\ results' = PostProcess(rpc_data', s_args)
               /\ s_pc' = "done"
               /\ UNCHANGED err
            \/ /\ err' = [err EXCEPT ![Searcher] = "StoreError"]
               /\ s_pc' = "raised"
               /\ UNCHANGED <<rpc_data, results>>
    /\ UNCHANGED <<s_args, storeVars, calls, provider_calls, pc, arg, norm, h,
                   res, emb, ret, ops>>
    /\ UNCHANGED <<clsVars, normVars, artVars, dashVars>>

\* line 124, or the exception leaving search: the call is over and its
\* locals are gone.
SearchExit ==
    /\ s_pc \in {"done", "raised"}
    /\ s_pc' = "idle" /\ s_args' = NoArgs
    /\ rpc_log' = <<>> /\ rpc_data' = NoData /\ results' = <<>>
    /\ UNCHANGED <<storeVars, callVars, clsVars, normVars, artVars, dashVars>>

\* One caller that calls search and get_or_create_query_embedding, one call
\* after the other.
SearchNext ==
    \/ SearchCall
    \/ SearchPropagate
    \/ SearchRpc
    \/ SearchExit
    \/ \E q \in SearchQueries : Call(Searcher, q)
    \/ Lookup(Searcher)
    \/ Hit(Searcher)
    \/ Embed(Searcher)
    \/ Insert(Searcher)

SearchSpec == CacheDocInit /\ [][SearchNext]_vars

(***************************************************************************)
(* articles_supabase.py: upload_csv, and llm_embedding.py: fetch_missing,  *)
(* embed_texts, upsert_embeddings.  A row of cfpb_articles is a function   *)
(* from its columns to strings, "null" for SQL NULL.                       *)
(***************************************************************************)
\* BATCH = 50
BATCH == 50

\* FETCH_LIMIT = 500
FETCH_LIMIT == 500

\* cols of upload_csv
UploadColumns ==
    {"source", "date", "title", "url", "text", "fraud_type", "fraud_tags", "summary"}

Columns == UploadColumns \cup {"embedding"}

Urls == {"u1", "u2"}

\* Two runs of the classification step over one article differ in its text,
\* tags and summary.
Versions == {"v1", "v2"}

\* One line of the CSV file, as df[cols].to_dict(orient="records") gives it.
CsvRecord(u, v) ==
    [source |-> "cfpb", date |-> "2024-01-15", title |-> "t", url |-> u,
     text |-> IF v = "v1" THEN "text1" ELSE "text2",
     fraud_type |-> IF v = "v1" THEN "generic" ELSE "phishing",
     fraud_tags |-> IF v = "v1" THEN "[]" ELSE "['phishing']",
     summary |-> IF v = "v1" THEN "summary1" ELSE "summary2"]

CsvRecords == {CsvRecord(u, v) : u \in Urls, v \in Versions}

\* The files upload_csv may be given.
CsvFiles == UNION {[1..n -> CsvRecords] : n \in 0..MaxCsvRows}

\* s[a:b] for 0 <= a <= b
py_slice(s, a, b) == SubSeq(s, a + 1, IF b < Len(s) THEN b ELSE Len(s))

\* ON CONFLICT DO UPDATE rejects a statement that names one key twice.
DistinctUrls(batch) ==
    \A i \in DOMAIN batch : \A j \in DOMAIN batch :
       i # j => batch[i].url # batch[j].url

\* The row an upsert leaves for a record: the columns it sends replace the
\* row's, the others stay.
Merge(row, rec) ==
    [c \in Columns |-> IF c \in DOMAIN rec THEN rec[c] ELSE row[c]]

\* The row an upsert inserts for a record with a new url.
NewRow(rec) ==
    [c \in Columns |-> IF c \in DOMAIN rec THEN rec[c] ELSE "null"]

RECURSIVE Upsert_ignore_duplicates(_, _)
\* A slip: .upsert(batch, on_conflict="url", ignore_duplicates=True), which
\* leaves a row with the url as it is.
Upsert_ignore_duplicates(table, batch) ==
    IF batch = <<>> THEN table
    ELSE LET rec == Head(batch)
             next == IF \E i \in DOMAIN table : table[i].url = rec.url
                     THEN table
                     ELSE Append(table, NewRow(rec))
         IN  Upsert_ignore_duplicates(next, Tail(batch))

RECURSIVE Upsert(_, _)
\* .upsert(batch, on_conflict="url")
Upsert(table, batch) ==
    IF batch = <<>> THEN table
    ELSE LET rec == Head(batch)
             next == IF \E i \in DOMAIN table : table[i].url = rec.url
                     THEN [i \in DOMAIN table |->
                              IF table[i].url = rec.url
                              THEN Merge(table[i], rec)
                              ELSE table[i]]
                     ELSE Append(table, NewRow(rec))
         IN  Upsert(next, Tail(batch))

\* upload_csv(CSV_PATH): lines 20-33
UploadStart ==
    /\ runs < MaxRuns
    /\ up_pc \in {"idle", "done", "raised"}
    /\ runs' = runs + 1
    /\ \E f \in CsvFiles : up_records' = f
    /\ up_i' = 0
    /\ up_pc' = IF up_records' = <<>> THEN "done" ELSE "loop"
    /\ UNCHANGED <<articles, em_pc, em_rows, em_i>>
    /\ UNCHANGED <<clsVars, normVars, cacheVars, dashVars>>

\* lines 37-42: one batch upserted, or the request failing
UploadBatch ==
    /\ up_pc = "loop"
    /\ LET batch == py_slice(up_records, up_i, up_i + BATCH) IN
         \/ /\ DistinctUrls(batch)
            /\ articles' = Upsert(articles, batch)
            /\ up_i' = up_i + BATCH
            /\ up_pc' = IF up_i' < Len(up_records) THEN "loop" ELSE "done"
         \/ /\ up_pc' = "raised"
            /\ UNCHANGED <<articles, up_i>>
    /\ UNCHANGED <<runs, up_records, em_pc, em_rows, em_i>>
    /\ UNCHANGED <<clsVars, normVars, cacheVars, dashVars>>

\* .select("url, text").is_("embedding", "null").limit(FETCH_LIMIT)
Missing(table) ==
    LET found == SelectSeq(table, LAMBDA r : r.embedding = "null")
    IN  py_slice([i \in DOMAIN found |->
                     [url |-> found[i].url, text |-> found[i].text]],
                 0, FETCH_LIMIT)

\* llm_embedding.py lines 85-91: rows = fetch_missing(), or it failing
FetchMissing ==
    /\ runs < MaxRuns
    /\ em_pc \in {"idle", "done", "raised"}
    /\ runs' = runs + 1
    /\ em_i' = 0
    /\ \/ /\ em_rows' = Missing(articles)
          /\ em_pc' = IF em_rows' = <<>> THEN "done" ELSE "loop"
       \/ /\ em_rows' = <<>>
          /\ em_pc' = "raised"
    /\ UNCHANGED <<articles, up_pc, up_records, up_i>>
    /\ UNCHANGED <<clsVars, normVars, cacheVars, dashVars>>

\* upsert_embeddings lines 64-74: one chunk embedded and upserted, or the
\* provider or the store failing
EmbedChunk ==
    /\ em_pc = "loop"
    /\ LET chunk == py_slice(em_rows, em_i, em_i + BATCH)
           payload == [j \in DOMAIN chunk |->
                          [url |-> chunk[j].url, embedding |-> "vector"]]
       IN  \/ /\ DistinctUrls(payload)
              /\ articles' = Upsert(articles, payload)
              /\ em_i' = em_i + BATCH
              /\ em_pc' = IF em_i' < Len(em_rows) THEN "loop" ELSE "done"
           \/ /\ em_pc' = "raised"
              /\ UNCHANGED <<articles, em_i>>
    /\ UNCHANGED <<runs, em_rows, up_pc, up_records, up_i>>
    /\ UNCHANGED <<clsVars, normVars, cacheVars, dashVars>>

ArtInit ==
    /\ ArtIdle
    /\ ClsStart /\ deployment = "generic"
    /\ NormIdle /\ CacheIdle /\ DashIdle

\* Runs of the upload script and of the embedding script, one of each at a
\* time, their requests interleaved.
ArtNext == UploadStart \/ UploadBatch \/ FetchMissing \/ EmbedChunk

ArtSpec == ArtInit /\ [][ArtNext]_vars

(***************************************************************************)
(* fraud_dashboard.py: the search handler of main and run_cached_semantic. *)
(***************************************************************************)
\* What the user may type as a question, and the preset chosen ("" for
\* none).
DashCustom == {<<>>, <<" ">>, <<"A", " ">>}
DashPresets == {<<>>, <<"b", " ", "a">>}

\* What the user may set: the slider's top_k, the threshold, the year (none
\* unless the toggle is on) and the keyword field.
DashInputs ==
    [top_k : {5}, threshold : {55}, year : {Null},
     keyword : {<<>>, <<" ">>}]

\* lines 602-610: the custom question, stripped, before the preset
effective_query(custom, preset) ==
    IF strip(custom) # <<>> THEN strip(custom) ELSE preset

\* lines 681-687: the arguments of run_cached_semantic; keyword.strip() or
\* None
DashKey(q, a) ==
    [query |-> q, top_k |-> a.top_k, threshold |-> a.threshold,
     year |-> a.year, keyword |-> strip(a.keyword)]

\* lines 692-718: what the page shows for a result list
Shown(rs) == IF rs = <<>> THEN {"info"} ELSE {"success"}

\* lines 673-677: the button pressed with no question chosen
DashWarn ==
    /\ d_pc = "idle"
    /\ \E custom \in DashCustom : \E preset \in DashPresets :
          effective_query(custom, preset) = <<>>
    /\ d_messages' = {"warning"}
    /\ d_results' = <<>>
    /\ UNCHANGED <<d_pc, d_key, memo>>
    /\ UNCHANGED <<clsVars, normVars, cacheVars, artVars>>

\* lines 61-69 and 679-687: the button pressed with a question; st.cache_data
\* answers from an entry it holds, or search is called
DashClick ==
    /\ d_pc = "idle"
    /\ \E custom \in DashCustom : \E preset \in DashPresets : \E a \in DashInputs :
          LET q == effective_query(custom, preset)
              key == DashKey(q, a)
          IN  /\ q # <<>>
              /\ d_key' = key
              /\ \/ /\ \E e \in memo :
                          /\ e.key = key
                          /\ d_results' = e.value
                          /\ d_messages' = Shown(e.value)
                    /\ UNCHANGED <<d_pc, memo>>
                    /\ UNCHANGED <<clsVars, normVars, cacheVars, artVars>>
                 \/ /\ SearchEnter(q, [top_k |-> key.top_k,
                                       threshold |-> key.threshold,
                                       year |-> key.year,
                                       keyword |-> key.keyword])
                    /\ memo' = {e \in memo : e.key # key}
                    /\ d_pc' = "searching"
                    /\ d_results' = <<>>
                    /\ d_messages' = {}

\* lines 681-687 and 692-718: search returned; the entry is kept and the
\* results are shown
DashShow ==
    /\ d_pc = "searching"
    /\ s_pc = "done"
    /\ d_results' = results
    /\ d_messages' = Shown(results)
    /\ memo' = memo \cup {[key |-> d_key, value |-> results]}
    /\ d_pc' = "idle"
    /\ s_pc' = "idle" /\ s_args' = NoArgs
    /\ rpc_log' = <<>> /\ rpc_data' = NoData /\ results' = <<>>
    /\ UNCHANGED d_key
    /\ UNCHANGED <<storeVars, callVars, clsVars, normVars, artVars>>

\* A slip: the call of run_cached_semantic outside a try block.
DashCatch_uncaught ==
    /\ d_pc = "searching"
    /\ s_pc = "raised"
    /\ d_pc' = "crashed"
    /\ s_pc' = "idle" /\ s_args' = NoArgs
    /\ rpc_log' = <<>> /\ rpc_data' = NoData /\ results' = <<>>
    /\ UNCHANGED <<d_key, d_results, d_messages, memo>>
    /\ UNCHANGED <<storeVars, callVars, clsVars, normVars, artVars>>

\* lines 688-696: except Exception: st.error(...), results = [], and the
\* note shown for an empty list
DashCatch ==
    /\ d_pc = "searching"
    /\ s_pc = "raised"
    /\ d_results' = <<>>
    /\ d_messages' = {"error"} \cup Shown(d_results')
    /\ d_pc' = "idle"
    /\ s_pc' = "idle" /\ s_args' = NoArgs
    /\ rpc_log' = <<>> /\ rpc_data' = NoData /\ results' = <<>>
    /\ UNCHANGED <<d_key, memo>>
    /\ UNCHANGED <<storeVars, callVars, clsVars, normVars, artVars>>

\* One user of the dashboard's search tab.
DashNext ==
    \/ DashWarn
    \/ DashClick
    \/ DashShow
    \/ DashCatch
    \/ Lookup(Searcher)
    \/ Hit(Searcher)
    \/ Embed(Searcher)
    \/ Insert(Searcher)
    \/ SearchPropagate
    \/ SearchRpc

DashSpec == CacheDocInit /\ [][DashNext]_vars

(***************************************************************************)
(* Properties of the classifier.                                           *)
(***************************************************************************)
\* The string tag_fraud searches: `text or ""`.
Searched == Or(text, EmptyStr).val

TrueFraud ==
    { "identity_theft", "account_takeover", "card_fraud", "check_fraud",
      "wire_transfer", "phishing", "crypto", "pig_butchering", "romance",
      "money_laundering" }

\* The priority list as documented.
DocumentedPriority ==
    << "identity_theft", "account_takeover", "card_fraud", "check_fraud",
       "wire_transfer", "phishing", "crypto", "pig_butchering", "romance",
       "money_laundering", "fcra", "reg_e", "reg_z", "udap",
       "debt_collection", "loan_servicing", "mortgage_misconduct",
       "auto_lending", "student_loan", "credit_furnishing",
       "payments_app_failure", "privacy_data_abuse", "remittance" >>

Position(seq, x) == CHOOSE i \in DOMAIN seq : seq[i] = x

\* C1: every call of tag_fraud on a text returns, and the primary category it
\* returns is "generic" or one of the returned tags; so the tags are not
\* empty when the primary category is a specific one.
C1_PrimaryIsFallbackOrTag ==
    /\ (status # "idle" /\ text.kind = "str") => status = "returned"
    /\ status = "returned" =>
          /\ fraud_type = "generic" \/ fraud_type \in Range(hits)
          /\ fraud_type # "generic" => hits # <<>>

C1_Witness ==
    /\ status = "returned"
    /\ fraud_type = "wire_transfer"
    /\ Len(hits) >= 2
    /\ "wire_transfer" \in Range(hits)

\* C2: the primary category is the first entry of the documented priority
\* list that is among the tags; a matched true-fraud category outranks every
\* regulatory one; romance, wire_transfer and generic give wire_transfer.
C2_FirstOfPriority ==
    status = "returned" =>
       /\ \A i \in DOMAIN DocumentedPriority :
             ( /\ DocumentedPriority[i] \in Range(hits)
               /\ \A j \in 1..(i - 1) : DocumentedPriority[j] \notin Range(hits) )
             => fraud_type = DocumentedPriority[i]
       /\ Range(hits) \cap TrueFraud # {} => fraud_type \in TrueFraud
       /\ Range(hits) = {"romance", "wire_transfer", "generic"}
             => fraud_type = "wire_transfer"

C2_Witness ==
    /\ status = "returned"
    /\ Range(hits) = {"romance", "wire_transfer", "generic"}
    /\ fraud_type = "wire_transfer"

\* C3: the tags are exactly the categories whose pattern matches the text,
\* each once, in the insertion order of the taxonomy table.
C3_TagsAreMatchesInTableOrder ==
    status = "returned" =>
       /\ \A i \in DOMAIN FRAUD_PATTERNS :
             FRAUD_PATTERNS[i] \in Range(hits) <=> Search(FRAUD_PATTERNS[i], Searched)
       /\ Range(hits) \subseteq Range(FRAUD_PATTERNS)
       /\ \A i \in DOMAIN hits : \A j \in DOMAIN hits :
             i < j => Position(FRAUD_PATTERNS, hits[i]) < Position(FRAUD_PATTERNS, hits[j])

\* Tags whose table order is not their priority order and not alphabetical.
C3_Witness ==
    /\ status = "returned"
    /\ hits = <<"check_fraud", "card_fraud", "generic">>

\* C4: whenever the identity_theft pattern matches the text, identity_theft
\* is among the tags and is the primary category, whatever else matches.
C4_IdentityTheftWins ==
    (status = "returned" /\ Search("identity_theft", Searched)) =>
       /\ "identity_theft" \in Range(hits)
       /\ fraud_type = "identity_theft"

C4_Witness ==
    /\ status = "returned"
    /\ Search("identity_theft", Searched)
    /\ {"account_takeover", "generic"} \cap Range(hits) # {}
    /\ fraud_type = "identity_theft"

\* C5: tag_fraud never fails: for None, the empty string and any argument that
\* is not a string it returns the empty tag list and the fallback category.
C5_NeverFails ==
    /\ status # "TypeError"
    /\ (status = "returned" /\ (text.kind # "str" \/ text = EmptyStr)) =>
          (hits = <<>> /\ fraud_type = "generic")

\* C6: when no priority category matches, the primary category returned is
\* the no-match value of the deployment's convention, "generic" or "not_fraud".
C6_FallbackFollowsDeployment ==
    (status = "returned" /\ Range(hits) \cap Range(DocumentedPriority) = {})
       => fraud_type = deployment

\* C7: a call of tag_fraud leaves the compiled pattern table as it was after
\* compilation (keys, order, patterns), and what it returns is the value the
\* unchanged table gives for the text, whatever calls came before.
C7_NoSideEffects ==
    [][ /\ FRAUD_REGEX' = FRAUD_REGEX
        /\ FRAUD_REGEX' = CompileAll
        /\ status' = "returned" =>
              /\ hits' = Comprehension(CompileAll, Or(text', EmptyStr).val)
              /\ fraud_type' = classify_violation(hits') ]_vars

C7_Witness ==
    /\ status = "returned"
    /\ nfrags = MaxFrags
    /\ Len(hits) >= 2
    /\ FRAUD_REGEX = CompileAll

(***************************************************************************)
(* Properties of _normalize.                                               *)
(***************************************************************************)
RECURSIVE Words(_)
\* The maximal runs of non-whitespace characters of s, in order.
Words(s) ==
    LET t == lstrip(s, Whitespace) IN
    IF t = <<>> THEN <<>>
    ELSE LET n == IF \E i \in DOMAIN t : t[i] \in Whitespace
                  THEN (CHOOSE i \in DOMAIN t :
                           /\ t[i] \in Whitespace
                           /\ \A j \in 1..(i - 1) : t[j] \notin Whitespace) - 1
                  ELSE Len(t)
         IN  <<SubSeq(t, 1, n)>> \o Words(SubSeq(t, n + 1, Len(t)))

\* "zelle unauthorized transfer"
ExampleNormalized ==
    << "z", "e", "l", "l", "e", " ",
       "u", "n", "a", "u", "t", "h", "o", "r", "i", "z", "e", "d", " ",
       "t", "r", "a", "n", "s", "f", "e", "r" >>

\* C8: _normalize(q) is q in lower case with every run of whitespace replaced
\* by one blank and no whitespace at either end; the documented example.
C8_NormalizeShape ==
    nstatus # "idle" =>
       /\ norm1 # <<>> => (norm1[1] \notin Whitespace /\ norm1[Len(norm1)] \notin Whitespace)
       /\ \A i \in DOMAIN norm1 :
             norm1[i] \in Whitespace =>
                (norm1[i] = " " /\ norm1[i + 1] \notin Whitespace)
       /\ \A i \in DOMAIN norm1 : \A j \in DOMAIN UpperCase : norm1[i] # UpperCase[j]
       /\ Words(norm1) = [k \in DOMAIN Words(query) |-> lower(Words(query)[k])]
       /\ query = ExampleQuery => norm1 = ExampleNormalized

C8_Witness ==
    /\ nstatus = "once"
    /\ query = ExampleQuery
    /\ norm1 = ExampleNormalized

\* C9: _normalize applied to a result of _normalize returns it unchanged.
C9_Idempotent == nstatus = "twice" => norm2 = norm1

C9_Witness ==
    /\ nstatus = "twice"
    /\ norm2 = norm1
    /\ Len(norm1) >= 3
    /\ Len(query) > Len(norm1)

(***************************************************************************)
(* Properties of the query embedding cache.                                *)
(***************************************************************************)
\* The rows of the table that carry the hash.
RowsOf(table, hash) == {i \in DOMAIN table : table[i].query_hash = hash}

\* C10: a call that finds a row with the query's hash returns that row's
\* stored vector without an embedding request, and sends one update, which
\* adds 1 to the row's use count and refreshes last_used_at and leaves the
\* row's embedding, text and hash and every other row as they were.
C10_CacheHit ==
    [][ \A p \in Callers :
          (pc[p] = "update" /\ pc'[p] = "done") =>
             /\ RowsOf(rows, h[p]) # {}
             /\ \A i \in RowsOf(rows, h[p]) : ret'[p] = rows[i].embedding
             /\ ops'[p] = <<"select", "update">>
             /\ provider_calls' = provider_calls
             /\ DOMAIN rows' = DOMAIN rows
             /\ \A i \in DOMAIN rows :
                   IF rows[i].query_hash = h[p]
                   THEN /\ rows[i].uses # Null => rows'[i].uses = rows[i].uses + 1
                        /\ rows[i].uses = Null => rows'[i].uses = 1
                        /\ rows'[i].last_used_at = now'
                        /\ rows'[i].last_used_at > rows[i].last_used_at
                        /\ rows'[i].embedding = rows[i].embedding
                        /\ rows'[i].query_text = rows[i].query_text
                        /\ rows'[i].query_hash = rows[i].query_hash
                   ELSE rows'[i] = rows[i] ]_vars

\* A hit on one of two cached queries has returned; its row counts 2 uses.
C10_Witness ==
    /\ pc[1] = "done"
    /\ ops[1] = <<"select", "update">>
    /\ Len(rows) = 2
    /\ \E i \in DOMAIN rows :
          /\ rows[i].query_hash = h[1]
          /\ rows[i].uses = 2
          /\ rows[i].last_used_at = now
          /\ ret[1] = rows[i].embedding
    /\ arg[1] # norm[1]

\* How often a request occurs among those a call has sent.
Count(log, name) == Cardinality({i \in DOMAIN log : log[i] = name})

SameQuery(q1, q2) ==
    /\ Len(Words(q1)) = Len(Words(q2))
    /\ \A k \in DOMAIN Words(q1) : lower(Words(q1)[k]) = lower(Words(q2)[k])

\* C13: under every interleaving of calls no two rows share a hash or a
\* normalised text, every row's hash is the hash of its text, queries that
\* differ only in case or whitespace have one hash, and a call that returned
\* leaves exactly one row for its query.
C13_OneRowPerQuery ==
    /\ \A i \in DOMAIN rows : \A j \in DOMAIN rows :
          i # j => /\ rows[i].query_hash # rows[j].query_hash
                   /\ rows[i].query_text # rows[j].query_text
    /\ \A i \in DOMAIN rows : rows[i].query_hash = _qhash(rows[i].query_text)
    /\ \A p \in Callers : \A r \in Callers :
          (pc[p] # "idle" /\ pc[r] # "idle" /\ SameQuery(arg[p], arg[r])) =>
             h[p] = h[r]
    /\ \A p \in Callers :
          pc[p] = "done" =>
             Cardinality({i \in DOMAIN rows :
                             SameQuery(rows[i].query_text, arg[p])}) = 1

C13_Witness ==
    /\ pc[1] = "done" /\ pc[2] = "done"
    /\ arg[1] # arg[2]
    /\ SameQuery(arg[1], arg[2])
    /\ "insert" \in Range(ops[1])
    /\ "update" \in Range(ops[2])
    /\ Len(rows) = 1

\* Both callers looked up one hash, found no row and sent an insert, and
\* both calls have ended.
ConcurrentMisses ==
    /\ pc[1] \in {"done", "raised"} /\ pc[2] \in {"done", "raised"}
    /\ h[1] = h[2]
    /\ "insert" \in Range(ops[1]) /\ "insert" \in Range(ops[2])

\* C14: when two calls miss on one hash at the same time, both may request
\* an embedding and both send an insert; the unique key lets one insert in,
\* so once both calls have ended and one of them returned, the table holds
\* exactly one row with that hash, the one of the call that returned.
C14_ConcurrentMisses ==
    (ConcurrentMisses /\ (pc[1] = "done" \/ pc[2] = "done")) =>
        /\ Cardinality(RowsOf(rows, h[1])) = 1
        /\ \E p \in Callers :
              /\ pc[p] = "done"
              /\ \A i \in RowsOf(rows, h[1]) : rows[i].embedding = ret[p]
        /\ \E p \in Callers : pc[p] = "raised" /\ err[p] = "StoreError"

C14_Witness ==
    /\ ConcurrentMisses
    /\ calls = 2
    /\ provider_calls = 2
    /\ pc[1] = "raised" /\ pc[2] = "done"
    /\ Cardinality(RowsOf(rows, h[1])) = 1

\* C15: no step of get_or_create_query_embedding or of search removes a
\* row: a hash the table holds is held after every step, with its text and
\* vector.
C15_NeverDeleted ==
    [][ \A i \in DOMAIN rows :
           \E j \in DOMAIN rows' :
              /\ rows'[j].query_hash = rows[i].query_hash
              /\ rows'[j].query_text = rows[i].query_text
              /\ rows'[j].embedding = rows[i].embedding ]_vars

C15_Witness ==
    /\ Len(rows) = 2
    /\ calls = MaxCalls
    /\ s_pc = "done"
    /\ ops[1] = <<"select", "update">>

\* C16: a failure of the embedding request ends the call with the provider's
\* error, which is not the store's; the call returns no vector and sends no
\* insert, so no row is written for the query, and no row ever holds a
\* missing vector.  A failed store request ends the call with the store's
\* error.
C16_ProviderFailure ==
    [][ /\ \A p \in Callers :
             /\ (pc[p] = "embed" /\ pc'[p] = "raised") =>
                   /\ err'[p] = "ProviderError"
                   /\ err'[p] # "StoreError"
                   /\ ret'[p] = NoVector
                   /\ rows' = rows
                   /\ ops'[p] = <<"select", "embed">>
                   /\ RowsOf(rows', h'[p]) = {}
             /\ (pc'[p] = "raised" /\ ops'[p][Len(ops'[p])] # "embed") =>
                   err'[p] = "StoreError"
        /\ \A i \in DOMAIN rows' : rows'[i].embedding # NoVector ]_vars

C16_Witness ==
    /\ pc[1] = "raised"
    /\ err[1] = "ProviderError"
    /\ ops[1] = <<"select", "embed">>
    /\ calls = 2
    /\ Len(rows) = 1
    /\ RowsOf(rows, h[1]) = {}

\* C17: a call sends each of its requests (lookup, update, embedding,
\* insert, similarity search) at most once: a failed request is not sent
\* again.
C17_NoRetry ==
    /\ \A p \in Callers :
          \A name \in {"select", "update", "embed", "insert"} :
             Count(ops[p], name) <= 1
    /\ \A p \in Callers : pc[p] = "raised" => Len(ops[p]) <= 3
    /\ Len(rpc_log) <= 1
    /\ provider_calls <= calls

C17_Witness ==
    /\ s_pc = "raised"
    /\ pc[1] = "raised"
    /\ err[1] = "StoreError"
    /\ ops[1] = <<"select">>
    /\ calls >= 2

(***************************************************************************)
(* Properties of search.                                                   *)
(***************************************************************************)
\* The rows of the answer that pass the local filters, in the order of the
\* answer.
Survivors ==
    KeywordFilter(YearFilter(IF rpc_data.null THEN <<>> ELSE rpc_data.rows,
                             s_args.year),
                  s_args.keyword)

\* The place of a row in a sequence of distinct rows.
Place(rs, r) == CHOOSE i \in DOMAIN rs : rs[i] = r

\* Row r1 comes before row r2 in the result order: higher similarity first,
\* and among equal similarities the one the answer lists first.
Before(r1, r2) ==
    \/ r1.similarity > r2.similarity
    \/ /\ r1.similarity = r2.similarity
       /\ Place(Survivors, r1) < Place(Survivors, r2)

\* C18: search returns at most top_k results, for every positive top_k and
\* however many rows the similarity service answers.
C18_AtMostTopK == s_pc = "done" => Len(results) <= s_args.top_k

C18_Witness ==
    /\ s_pc = "done"
    /\ Len(Survivors) > s_args.top_k
    /\ Len(results) = s_args.top_k
    /\ s_args.top_k = MaxTopK

\* C19: the results are the rows that pass the filters, ordered by
\* similarity from high to low with equal similarities in the order the
\* service listed them, cut after top_k rows: one answer and one set of
\* parameters give one result.
C19_SortedAndCut ==
    s_pc = "done" =>
       /\ Len(results) =
             IF s_args.top_k < Len(Survivors) THEN s_args.top_k ELSE Len(Survivors)
       /\ \A k \in DOMAIN results : results[k] \in Range(Survivors)
       /\ \A k \in DOMAIN results : \A l \in DOMAIN results :
             k < l => Before(results[k], results[l])
       /\ \A r \in Range(Survivors) \ Range(results) :
             \A k \in DOMAIN results : Before(results[k], r)

C19_Witness ==
    /\ s_pc = "done"
    /\ Len(rpc_data.rows) = 4
    /\ rpc_data.rows[1].similarity = 30
    /\ rpc_data.rows[2].url = "u3"
    /\ rpc_data.rows[4].url = "u2"
    /\ s_args.top_k = 2
    /\ Len(results) = 2
    /\ results[1].similarity = 90
    /\ results[2].url = "u3"

\* The similarities of a sequence of rows.
Similarities(rs) == [k \in DOMAIN rs |-> rs[k].similarity]

\* The documented case: the candidates have similarities 0.9, 0.6 and 0.3,
\* the threshold is 0.55, top_k is 5, and no filter is given.
ExampleSearch ==
    /\ s_pc = "done"
    /\ ~rpc_data.null
    /\ {a.similarity : a \in rpc_data.table} = {90, 60, 30}
    /\ Cardinality(rpc_data.table) = 3
    /\ s_args.threshold = 55
    /\ s_args.top_k = 5
    /\ s_args.year = Null
    /\ s_args.keyword = <<>>

Contains(s, sub) ==
    \E i \in 0..(Len(s) - Len(sub)) : SubSeq(s, i + 1, i + Len(sub)) = sub

\* The rows the similarity service answered.
Answer == IF rpc_data.null THEN <<>> ELSE rpc_data.rows

\* The row has a date, and its string form contains the year's.
DatePasses(r, year) == r.date # <<>> /\ Contains(r.date, str(year))

\* The row's title contains the keyword, letter case set aside; a missing
\* title contains nothing but the empty keyword.
TitlePasses(r, keyword) == Contains(lower(r.title), lower(keyword))

\* The smaller of two numbers.
Min(a, b) == IF a < b THEN a ELSE b

\* How many rows of the answer satisfy a condition.
HowMany(Keep(_)) == Cardinality({i \in DOMAIN Answer : Keep(Answer[i])})

\* C21, as stated: with any year given, 0 included, every result has a date
\* containing the year.
C21_YearFilter_AnyYear ==
    (s_pc = "done" /\ s_args.year # Null) =>
       \A k \in DOMAIN results : DatePasses(results[k], s_args.year)

\* C21, amended: with a year other than 0 every result has a date whose
\* string form contains the year, whatever its similarity, and rows without
\* a date are left out; with no year, or the year 0, no row is left out on
\* account of its date.
C21_YearFilter ==
    s_pc = "done" =>
       /\ s_args.year \notin {Null, 0} =>
             /\ \A k \in DOMAIN results : DatePasses(results[k], s_args.year)
             /\ Len(results) =
                   Min(s_args.top_k,
                       HowMany(LAMBDA r : /\ DatePasses(r, s_args.year)
                                          /\ TitlePasses(r, s_args.keyword)))
       /\ s_args.year \in {Null, 0} =>
             Len(results) =
                Min(s_args.top_k, HowMany(LAMBDA r : TitlePasses(r, s_args.keyword)))

C21_Witness ==
    /\ s_pc = "done"
    /\ s_args.year = 2024
    /\ s_args.keyword = <<>>
    /\ s_args.top_k = 5
    /\ Len(Answer) = 4
    /\ Answer[1].url = "u2"
    /\ Len(results) = 2
    /\ results[1].url = "u1"
    /\ results[2].url = "u3"

C23_EmptyNotError ==
    [][ /\ (s_pc = "embedding" /\ s_pc' = "raised" /\ rpc_log' # rpc_log) =>
              err'[Searcher] = "StoreError"
        /\ (s_pc = "embedding" /\ s_pc' = "raised" /\ rpc_log' = rpc_log) =>
              pc[Searcher] = "raised"
        /\ (s_pc' = "done" /\ Survivors' = <<>>) =>
              /\ results' = <<>>
              /\ err'[Searcher] = "none" ]_vars

C23_Witness ==
    /\ s_pc = "done"
    /\ rpc_data.null
    /\ Len(rpc_log) = 1
    /\ results = <<>>
    /\ err[Searcher] = "none"

\* C24: a search obtains the query vector from
\* get_or_create_query_embedding before it sends anything to the similarity
\* service, then sends one request with that vector, the caller's threshold
\* and a row count of 100 whatever top_k is, and none after the filters.
C24_OneRequest ==
    /\ (s_pc = "embedding" \/ (s_pc = "raised" /\ pc[Searcher] = "raised")) =>
          rpc_log = <<>>
    /\ (s_pc = "done" \/ (s_pc = "raised" /\ pc[Searcher] = "done")) =>
          /\ Len(rpc_log) = 1
          /\ rpc_log[1].query_embedding = ret[Searcher]
          /\ rpc_log[1].query_embedding # NoVector
          /\ rpc_log[1].query_embedding.of = _normalize(arg[Searcher])
          /\ rpc_log[1].match_threshold = s_args.threshold
          /\ rpc_log[1].match_count = 100
          /\ ops[Searcher] \in {<<"select", "update">>, <<"select", "embed", "insert">>}

C24_Witness ==
    /\ s_pc = "done"
    /\ s_args.top_k = 1
    /\ s_args.threshold = 55
    /\ Len(rpc_log) = 1
    /\ rpc_log[1].match_count = 100
    /\ Len(Answer) = 3
    /\ Len(results) = 1

\* C28: every row search returns is a row of the service's answer to this
\* call, field for field, and no row of the answer is returned twice.
C28_SelectsAndReorders ==
    s_pc = "done" =>
       /\ \A k \in DOMAIN results : results[k] \in Range(Answer)
       /\ \A k \in DOMAIN results : \A l \in DOMAIN results :
             k # l => results[k] # results[l]

C28_Witness ==
    /\ s_pc = "done"
    /\ Len(Answer) = 4
    /\ Len(results) = 2
    /\ s_args.keyword = <<"C", "F">>
    /\ results[1].title = <<"C", "f", " ", "a">>
    /\ results[2].title = <<"c", "f">>

(***************************************************************************)
(* The priority list and the taxonomy.                                     *)
(***************************************************************************)
\* C27: the priority list holds every category of the taxonomy but
\* "generic", each once, and nothing else; so the primary category returned
\* is "generic" exactly when no category other than "generic" matched.
C27_PriorityCoversTaxonomy ==
    /\ \A i \in DOMAIN FRAUD_PATTERNS :
          Cardinality({j \in DOMAIN priority : priority[j] = FRAUD_PATTERNS[i]})
             = IF FRAUD_PATTERNS[i] = "generic" THEN 0 ELSE 1
    /\ Range(priority) \subseteq Range(FRAUD_PATTERNS)
    /\ status = "returned" =>
          (fraud_type = "generic" <=> Range(hits) \subseteq {"generic"})

C27_Witness ==
    /\ status = "returned"
    /\ Range(hits) = {"remittance", "generic"}
    /\ fraud_type = "remittance"

(***************************************************************************)
(* The use count under concurrent callers.                                 *)
(***************************************************************************)
\* C26: every cache hit is counted, whatever the interleaving: a call that
\* completes as a hit leaves the row's use count one higher than it was
\* when the update arrived, so k hits raise it by k.
C26_EveryHitCounted ==
    [][ \A p \in Callers :
           (pc[p] = "update" /\ pc'[p] = "done") =>
              \A i \in RowsOf(rows, h[p]) :
                 rows'[i].uses = rows[i].uses + 1 ]_vars

(***************************************************************************)
(* Properties of the article table.                                        *)
(***************************************************************************)
\* The places of the rows of a table with the url.
RowsWithUrl(table, u) == {i \in DOMAIN table : table[i].url = u}

\* C25: the article table never holds two rows with one url; a batch of
\* upload_csv leaves, for each of its records, the one row of that url with
\* the record's type, tags and summary, adds a row only for a url the table
\* did not hold, and keeps what the row's embedding was.
C25_KeyedByUrl ==
    [][ /\ \A i \in DOMAIN articles' : \A j \in DOMAIN articles' :
              i # j => articles'[i].url # articles'[j].url
        /\ (up_pc = "loop" /\ up_i' # up_i) =>
              LET batch == py_slice(up_records, up_i, up_i + BATCH) IN
                /\ \A k \in DOMAIN batch :
                      /\ Cardinality(RowsWithUrl(articles', batch[k].url)) = 1
                      /\ \A i \in RowsWithUrl(articles', batch[k].url) :
                            /\ articles'[i].fraud_type = batch[k].fraud_type
                            /\ articles'[i].fraud_tags = batch[k].fraud_tags
                            /\ articles'[i].summary = batch[k].summary
                            /\ \A j \in RowsWithUrl(articles, batch[k].url) :
                                  articles'[i].embedding = articles[j].embedding
                /\ Len(articles') = Len(articles) +
                      Cardinality({batch[k].url : k \in DOMAIN batch}
                                  \ {articles[i].url : i \in DOMAIN articles})
        /\ \A i \in DOMAIN articles :
              \E j \in DOMAIN articles' : articles'[j].url = articles[i].url ]_vars

C25_Witness ==
    /\ Len(articles) = 1
    /\ up_pc = "done"
    /\ articles[1].fraud_type = "phishing"
    /\ articles[1].summary = "summary2"
    /\ articles[1].embedding = "vector"
    /\ em_pc = "done"
    /\ em_rows = <<[url |-> articles[1].url, text |-> "text1"]>>

(***************************************************************************)
(* Properties of the dashboard's search handler.                           *)
(***************************************************************************)
\* C29: when search ends with a failure of the provider or of the store,
\* the handler takes it: it shows an error message, goes on with an empty
\* result list and is ready for the next search; it never stops with the
\* failure.
C29_FailureCaught ==
    [][ /\ d_pc' \in {"idle", "searching"}
        /\ (d_pc = "searching" /\ s_pc = "raised" /\ s_pc' # s_pc) =>
              /\ err[Searcher] \in {"ProviderError", "StoreError"}
              /\ d_pc' = "idle"
              /\ "error" \in d_messages'
              /\ d_results' = <<>>
              /\ memo' = memo
        /\ (d_pc = "searching" /\ s_pc = "embedding") => d_pc' = "searching" ]_vars

C29_Witness ==
    /\ d_pc = "idle"
    /\ "error" \in d_messages
    /\ d_results = <<>>
    /\ err[Searcher] = "ProviderError"
    /\ pc[Searcher] = "raised"
    /\ calls = 2
    /\ memo # {}

====
